---------------------------- MODULE Spec2Model ----------------------------
(***************************************************************************)
(* A state-machine model of the "draco" campaign-management backend        *)
(* (knsjerome/cmpt-354-project): the route table of server/routes.go, the  *)
(* JWT gate in front of the /auth group, and the request handlers of       *)
(* server/handlers.go over a relational store.                             *)
(*                                                                         *)
(* Strings (usernames, passwords, path segments) are sequences of          *)
(* one-character strings, so that strings.TrimSpace and strconv.Atoi are   *)
(* computed rather than assumed.                                           *)
(***************************************************************************)
EXTENDS Integers, Sequences, FiniteSets, TLC

VARIABLES
    db,      \* the relational store: one field per table, plus the serial counters
    issued,  \* subjects for which createJWT has produced a signed token
    req,     \* the request being answered (route "none": the server is idle)
    resp,    \* the response to it
    calls,   \* the repository operations the request invoked, in order
    pre,     \* the store as it was when the request arrived
    reg      \* history: per username, the (password, name) of its registration,
             \* as long as no password change or deletion of it has been invoked

vars == <<db, issued, req, resp, calls, pre, reg>>

(***************************************************************************)
(* Bounds and alphabets                                                    *)
(***************************************************************************)
MaxLen == 2          \* longest password string drawn as an input
MaxCharacters == 1   \* characters created in one behaviour
MaxCampaigns == 1    \* campaigns created in one behaviour
MaxInventoryCharacters == 2   \* characters created in one behaviour of SpecInventory
MaxAttendanceCharacters == 2  \* characters created in one behaviour of SpecCampaigns
MaxAttendanceCampaigns == 2   \* campaigns created in one behaviour of SpecCampaigns

Chars == {"a", " "}
Strings == UNION {[1..n -> Chars] : n \in 0..MaxLen}

Alice == <<"a">>
Bob == <<"b">>
Blank == <<" ">>
Usernames == {Alice, Bob, Blank}
DisplayName == <<"n">>

Nil == [kind |-> "nil"]

(***************************************************************************)
(* strings.TrimSpace: drops leading and trailing white space.              *)
(***************************************************************************)
RECURSIVE TrimLeft(_)
TrimLeft(s) == IF s # <<>> /\ Head(s) = " " THEN TrimLeft(Tail(s)) ELSE s

RECURSIVE TrimRight(_)
TrimRight(s) ==
    IF s # <<>> /\ s[Len(s)] = " " THEN TrimRight(SubSeq(s, 1, Len(s) - 1)) ELSE s

TrimSpace(s) == TrimRight(TrimLeft(s))

(***************************************************************************)
(* strconv.Atoi on a path segment: a non-empty run of decimal digits is    *)
(* its number, anything else is an error.                                  *)
(***************************************************************************)
DigitValue(ch) ==
    CASE ch = "0" -> 0 [] ch = "1" -> 1 [] ch = "2" -> 2 [] ch = "3" -> 3
      [] ch = "4" -> 4 [] ch = "5" -> 5 [] ch = "6" -> 6 [] ch = "7" -> 7
      [] ch = "8" -> 8 [] ch = "9" -> 9 [] OTHER -> -1

RECURSIVE AtoiFrom(_, _)
AtoiFrom(s, acc) ==
    IF s = <<>> THEN [err |-> FALSE, n |-> acc]
    ELSE IF DigitValue(Head(s)) < 0 THEN [err |-> TRUE, n |-> 0]
    ELSE AtoiFrom(Tail(s), 10 * acc + DigitValue(Head(s)))

Atoi(s) == IF s = <<>> THEN [err |-> TRUE, n |-> 0] ELSE AtoiFrom(s, 0)

(***************************************************************************)
(* The response envelope. sendJSONResponse writes {category, message,      *)
(* data} with the given status; a handler that returns nil without calling *)
(* it leaves the framework to answer 200 with an empty body.               *)
(***************************************************************************)
sendJSONResponse(status, category, message, data) ==
    [by |-> "handler", status |-> status, envelope |-> TRUE,
     category |-> category, message |-> message, data |-> data]

NoBody ==
    [by |-> "handler", status |-> 200, envelope |-> FALSE,
     category |-> "", message |-> "", data |-> Nil]

\* What a handler hands back: its response, the store after it, the
\* repository operations it invoked.
Result(response, store, invoked) ==
    [resp |-> response, db |-> store, calls |-> invoked]

Call(op, args, err) == [op |-> op, args |-> args, err |-> err]

(***************************************************************************)
(* Token service: createJWT signs a time-limited token whose subject is    *)
(* the username; the gate accepts a token on signature and expiry alone.   *)
(* A presented token carries `expired`: whether its expiry lies before the *)
(* time of the request.                                                    *)
(***************************************************************************)
NoToken == [kind |-> "none"]
Malformed == [kind |-> "malformed"]
JWT(sub, sig, expired) == [kind |-> "jwt", sub |-> sub, sig |-> sig, expired |-> expired]

createJWT(username) == [err |-> FALSE, token |-> JWT(username, "ok", FALSE)]

ValidToken(tok) == tok.kind = "jwt" /\ tok.sig = "ok" /\ ~tok.expired

getUsernameFromToken(r) == IF r.tok.kind = "jwt" THEN r.tok.sub ELSE <<>>

GateReject ==
    [by |-> "gate", status |-> 401, envelope |-> TRUE,
     category |-> "Authentication", message |-> "invalid or expired jwt", data |-> Nil]

(***************************************************************************)
(* Credential store (models.Players): one-way hash of the password.        *)
(* A repository operation returns its error ("nil" for none), its value    *)
(* and the table after it. `fault` is a persistence failure unrelated to   *)
(* the request (the StorageError of the error taxonomy).                   *)
(***************************************************************************)
Hash(password) == [alg |-> "hash", preimage |-> password]
VerifyHash(hash, password) == hash = Hash(password)

PlayersInsert(players, username, password, name, fault) ==
    IF fault THEN [err |-> "ErrStorage", players |-> players]
    ELSE IF username \in DOMAIN players THEN [err |-> "ErrConflict", players |-> players]
    ELSE [err |-> "nil",
          players |-> [u \in DOMAIN players \cup {username} |->
                          IF u = username
                          THEN [password_hash |-> Hash(password), name |-> name]
                          ELSE players[u]]]

PlayersAuthenticate(players, username, password, fault) ==
    IF fault THEN [err |-> "ErrStorage", username |-> <<>>]
    ELSE IF username \notin DOMAIN players THEN [err |-> "ErrNoRecord", username |-> <<>>]
    ELSE IF ~VerifyHash(players[username].password_hash, password)
         THEN [err |-> "ErrInvalidCredentials", username |-> <<>>]
    ELSE [err |-> "nil", username |-> username]

PlayersGet(players, username, fault) ==
    IF fault THEN [err |-> "ErrStorage", player |-> Nil]
    ELSE IF username \notin DOMAIN players THEN [err |-> "ErrNoRecord", player |-> Nil]
    ELSE [err |-> "nil",
          player |-> [kind |-> "player", username |-> username,
                      name |-> players[username].name]]

PlayersUpdatePassword(players, username, password, fault) ==
    IF fault THEN [err |-> "ErrStorage", players |-> players]
    ELSE IF TrimSpace(password) = <<>> THEN [err |-> "ErrInvalid", players |-> players]
    ELSE [err |-> "nil",
          players |-> [u \in DOMAIN players |->
                          IF u = username
                          THEN [players[u] EXCEPT !.password_hash = Hash(password)]
                          ELSE players[u]]]

PlayersDelete(players, username, fault) ==
    IF fault THEN [err |-> "ErrStorage", players |-> players]
    ELSE [err |-> "nil",
          players |-> [u \in DOMAIN players \ {username} |-> players[u]]]


(***************************************************************************)
(* Player handlers (server/handlers.go). Each takes the store and the      *)
(* request and gives back a Result.                                        *)
(***************************************************************************)
\* createPlayer trying the insert a second time when the first one failed.
createPlayerRetrying(d, r) ==
    IF r.body.kind = "malformed"
    THEN Result(sendJSONResponse(422, "Player creation", "Could not process request", Nil),
                d, <<>>)
    ELSE LET ins == PlayersInsert(d.players, r.body.username, r.body.password,
                                  r.body.name, r.fault)
             call == Call("players.Insert", <<r.body.username, r.body.password>>, ins.err)
             again == PlayersInsert(ins.players, r.body.username, r.body.password,
                                    r.body.name, r.fault)
             retry == Call("players.Insert", <<r.body.username, r.body.password>>,
                           again.err)
         IN  IF ins.err = "nil"
             THEN Result(sendJSONResponse(201, "Player creation", "Creation successful", Nil),
                         [d EXCEPT !.players = ins.players], <<call>>)
             ELSE IF again.err # "nil"
             THEN Result(sendJSONResponse(500, "Player creation", "Creation failed", Nil),
                         [d EXCEPT !.players = again.players], <<call, retry>>)
             ELSE Result(sendJSONResponse(201, "Player creation", "Creation successful", Nil),
                         [d EXCEPT !.players = again.players], <<call, retry>>)

\* createPlayer with the error of players.Insert dropped.
createPlayerIgnoringError(d, r) ==
    IF r.body.kind = "malformed"
    THEN Result(sendJSONResponse(422, "Player creation", "Could not process request", Nil),
                d, <<>>)
    ELSE LET ins == PlayersInsert(d.players, r.body.username, r.body.password,
                                  r.body.name, r.fault)
             call == Call("players.Insert", <<r.body.username, r.body.password>>, ins.err)
         IN  Result(sendJSONResponse(201, "Player creation", "Creation successful", Nil),
                    [d EXCEPT !.players = ins.players], <<call>>)

createPlayer(d, r) ==
    IF r.body.kind = "malformed"
    THEN Result(sendJSONResponse(422, "Player creation", "Could not process request", Nil),
                d, <<>>)
    ELSE LET ins == PlayersInsert(d.players, r.body.username, r.body.password,
                                  r.body.name, r.fault)
             call == Call("players.Insert", <<r.body.username, r.body.password>>, ins.err)
         IN  IF ins.err # "nil"
             THEN Result(sendJSONResponse(500, "Player creation", "Creation failed", Nil),
                         [d EXCEPT !.players = ins.players], <<call>>)
             ELSE Result(sendJSONResponse(201, "Player creation", "Creation successful", Nil),
                         [d EXCEPT !.players = ins.players], <<call>>)

\* A failure answer that tells a missing username from a wrong password.
LoginFailedRevealing(err) ==
    IF err = "ErrNoRecord"
    THEN sendJSONResponse(404, "Player login", "No such player", Nil)
    ELSE sendJSONResponse(401, "Player login", "Login failed", Nil)

\* The answer to a login whose authentication failed, whatever the error.
LoginFailed(err) == sendJSONResponse(401, "Player login", "Login failed", Nil)

loginPlayer(d, r) ==
    IF r.body.kind = "malformed"
    THEN Result(sendJSONResponse(422, "Player login", "Could not process request", Nil),
                d, <<>>)
    ELSE LET auth == PlayersAuthenticate(d.players, r.body.username, r.body.password,
                                         r.fault)
             call == Call("players.Authenticate",
                          <<r.body.username, r.body.password>>, auth.err)
             jwt == createJWT(auth.username)
         IN  IF auth.err # "nil"
             THEN Result(LoginFailed(auth.err), d, <<call>>)
             ELSE IF jwt.err
             THEN Result(sendJSONResponse(401, "Player login", "Login failed", Nil),
                         d, <<call>>)
             ELSE Result(sendJSONResponse(200, "Player login", "Login successful",
                             [kind |-> "login", username |-> auth.username,
                              token |-> jwt.token]),
                         d, <<call>>)

\* The ownership check left out.
AccessDeniedNever(tokenUsername, requestedUsername) == FALSE

\* The ownership check refusing everybody.
AccessDeniedAlways(tokenUsername, requestedUsername) == TRUE

\* A player may read only the record named by the token's subject.
AccessDenied(tokenUsername, requestedUsername) == tokenUsername # requestedUsername

retrievePlayer(d, r) ==
    LET requestedUsername == r.path.username
        tokenUsername == getUsernameFromToken(r)
    IN  IF AccessDenied(tokenUsername, requestedUsername)
        THEN Result(sendJSONResponse(401, "Player retrieval", "Access denied", Nil),
                    d, <<>>)
        ELSE LET got == PlayersGet(d.players, requestedUsername, r.fault)
                 call == Call("players.Get", <<requestedUsername>>, got.err)
             IN  IF got.err # "nil"
                 THEN Result(sendJSONResponse(404, "Player retrieval", "Retrieval failed", Nil),
                             d, <<call>>)
                 ELSE Result(sendJSONResponse(200, "Player retrieval",
                                 "Retrieval successful", got.player),
                             d, <<call>>)

\* The account named by the request body instead of the token.
ActingPlayerFromBody(r) ==
    IF r.body.kind = "json" THEN r.body.username ELSE getUsernameFromToken(r)

\* The account a me-route acts on: the subject of the validated token.
ActingPlayer(r) == getUsernameFromToken(r)

\* Passwords trimmed of leading white space only.
PasswordFieldLeftTrimmed(s) == TrimLeft(s)

\* The password fields taken as sent.
PasswordFieldUntrimmed(s) == s

\* Passwords do not keep leading or trailing white space.
PasswordField(s) == TrimSpace(s)

changePlayerPassword(d, r) ==
    LET playerUsername == ActingPlayer(r)
        NewPassword == PasswordField(r.body.new_password)
        Confirmation == PasswordField(r.body.confirmation)
    IN  IF TrimSpace(playerUsername) = <<>>
        THEN Result(sendJSONResponse(401, "Change player password", "Access denied", Nil),
                    d, <<>>)
        ELSE IF r.body.kind = "malformed"
        THEN Result(sendJSONResponse(422, "Change player password",
                        "Could not process request", Nil), d, <<>>)
        ELSE IF NewPassword = <<>> \/ Confirmation = <<>>
        THEN Result(sendJSONResponse(422, "Change player password",
                        "New password must be specified", Nil), d, <<>>)
        ELSE IF NewPassword # Confirmation
        THEN Result(sendJSONResponse(400, "Change player password",
                        "New password and confirmation do not match", Nil), d, <<>>)
        ELSE LET upd == PlayersUpdatePassword(d.players, playerUsername, NewPassword,
                                              r.fault)
                 call == Call("players.UpdatePassword",
                              <<playerUsername, NewPassword>>, upd.err)
             IN  IF upd.err # "nil"
                 THEN Result(sendJSONResponse(500, "Change player password",
                                 "Password failed to update", Nil),
                             [d EXCEPT !.players = upd.players], <<call>>)
                 ELSE Result(NoBody, [d EXCEPT !.players = upd.players], <<call>>)

deletePlayerSelf(d, r) ==
    LET playerUsername == getUsernameFromToken(r)
    IN  IF TrimSpace(playerUsername) = <<>>
        THEN Result(sendJSONResponse(401, "Delete player account", "Access denied", Nil),
                    d, <<>>)
        ELSE LET del == PlayersDelete(d.players, playerUsername, r.fault)
                 call == Call("players.Delete", <<playerUsername>>, del.err)
             IN  IF del.err # "nil"
                 THEN Result(sendJSONResponse(500, "Delete player account",
                                 "Deletion failed", Nil),
                             [d EXCEPT !.players = del.players], <<call>>)
                 ELSE Result(NoBody, [d EXCEPT !.players = del.players], <<call>>)


(***************************************************************************)
(* url.QueryUnescape on a path segment: "+" is a space, "%XY" is the byte  *)
(* with hexadecimal code XY, a "%" not followed by two hexadecimal digits  *)
(* is an error. Ascii lists the printable characters from code 32 on (the  *)
(* grave accent, which a string of this language cannot hold, and every    *)
(* byte outside the table stand as their decimal code).                    *)
(***************************************************************************)
Ascii ==
    <<" ", "!", "\"", "#", "$", "%", "&", "'", "(", ")", "*", "+", ",", "-", ".", "/",
      "0", "1", "2", "3", "4", "5", "6", "7", "8", "9", ":", ";", "<", "=", ">", "?",
      "@", "A", "B", "C", "D", "E", "F", "G", "H", "I", "J", "K", "L", "M", "N", "O",
      "P", "Q", "R", "S", "T", "U", "V", "W", "X", "Y", "Z", "[", "\\", "]", "^", "_",
      "96", "a", "b", "c", "d", "e", "f", "g", "h", "i", "j", "k", "l", "m", "n", "o",
      "p", "q", "r", "s", "t", "u", "v", "w", "x", "y", "z", "{", "|", "}", "~">>

ByteChar(n) == IF n \in 32..126 THEN Ascii[n - 31] ELSE ToString(n)

HexValue(ch) ==
    CASE DigitValue(ch) >= 0 -> DigitValue(ch)
      [] ch \in {"a", "A"} -> 10 [] ch \in {"b", "B"} -> 11 [] ch \in {"c", "C"} -> 12
      [] ch \in {"d", "D"} -> 13 [] ch \in {"e", "E"} -> 14 [] ch \in {"f", "F"} -> 15
      [] OTHER -> -1

RECURSIVE QueryUnescape(_)
QueryUnescape(s) ==
    IF s = <<>> THEN [err |-> FALSE, s |-> <<>>]
    ELSE IF Head(s) = "%"
    THEN IF Len(s) < 3 \/ HexValue(s[2]) < 0 \/ HexValue(s[3]) < 0
         THEN [err |-> TRUE, s |-> <<>>]
         ELSE LET rest == QueryUnescape(SubSeq(s, 4, Len(s)))
              IN  IF rest.err THEN rest
                  ELSE [err |-> FALSE,
                        s |-> <<ByteChar(16 * HexValue(s[2]) + HexValue(s[3]))>> \o rest.s]
    ELSE LET rest == QueryUnescape(Tail(s))
         IN  IF rest.err THEN rest
             ELSE [err |-> FALSE,
                   s |-> <<IF Head(s) = "+" THEN " " ELSE Head(s)>> \o rest.s]

(***************************************************************************)
(* Resource repositories (models.Characters, Spells, Items, Campaigns,     *)
(* Stats). Characters and campaigns get serial ids; a spell or an item is  *)
(* keyed by (character id, name); a participation link is a pair           *)
(* (campaign id, character id). Foreign keys are checked on insert.        *)
(***************************************************************************)
CharactersInsert(d, character, fault) ==
    IF fault THEN [err |-> "ErrStorage", id |-> 0, db |-> d]
    ELSE IF character.player_username \notin DOMAIN d.players
    THEN [err |-> "ErrForeignKey", id |-> 0, db |-> d]
    ELSE LET id == d.nextCharacterID
         IN  [err |-> "nil", id |-> id,
              db |-> [d EXCEPT
                        !.characters = [c \in DOMAIN d.characters \cup {id} |->
                                          IF c = id
                                          THEN [player_username |-> character.player_username]
                                          ELSE d.characters[c]],
                        !.nextCharacterID = id + 1]]

CharactersGet(d, id, fault) ==
    IF fault THEN [err |-> "ErrStorage", character |-> Nil]
    ELSE IF id \notin DOMAIN d.characters THEN [err |-> "ErrNoRecord", character |-> Nil]
    ELSE [err |-> "nil",
          character |-> [kind |-> "character", id |-> id,
                         player_username |-> d.characters[id].player_username]]

CharactersGetAllUserCharacters(d, username, fault) ==
    IF fault THEN [err |-> "ErrStorage", characters |-> {}]
    ELSE [err |-> "nil",
          characters |-> {c \in DOMAIN d.characters :
                             d.characters[c].player_username = username}]

CharactersDelete(d, id, fault) ==
    IF fault THEN [err |-> "ErrStorage", db |-> d]
    ELSE [err |-> "nil",
          db |-> [d EXCEPT !.characters =
                     [c \in DOMAIN d.characters \ {id} |-> d.characters[c]]]]

\* Spells and items share their shape: `table` is the set of rows
\* (character id, name, detail), with (character id, name) as its primary key.
Keyed(table, characterID, name) ==
    {row \in table : row[1] = characterID /\ row[2] = name}

OwnedInsert(d, table, characterID, name, detail, fault) ==
    IF fault THEN [err |-> "ErrStorage", table |-> table]
    ELSE IF characterID \notin DOMAIN d.characters
    THEN [err |-> "ErrForeignKey", table |-> table]
    ELSE IF Keyed(table, characterID, name) # {}
    THEN [err |-> "ErrConflict", table |-> table]
    ELSE [err |-> "nil", table |-> table \cup {<<characterID, name, detail>>}]

OwnedGet(table, characterID, name, fault) ==
    IF fault THEN [err |-> "ErrStorage", row |-> Nil]
    ELSE IF Keyed(table, characterID, name) = {} THEN [err |-> "ErrNoRecord", row |-> Nil]
    ELSE LET row == CHOOSE found \in Keyed(table, characterID, name) : TRUE
         IN  [err |-> "nil",
              row |-> [kind |-> "owned", character_id |-> row[1], name |-> row[2],
                       detail |-> row[3]]]

OwnedGetAll(table, characterID, fault) ==
    IF fault THEN [err |-> "ErrStorage", rows |-> {}]
    ELSE [err |-> "nil", rows |-> {row \in table : row[1] = characterID}]

OwnedDelete(table, characterID, name, fault) ==
    IF fault THEN [err |-> "ErrStorage", table |-> table]
    ELSE IF Keyed(table, characterID, name) = {} THEN [err |-> "ErrNoRecord", table |-> table]
    ELSE [err |-> "nil", table |-> table \ Keyed(table, characterID, name)]

\* CampaignModel.Insert's statement: one row into Campaign, RETURNING id.
CampaignInsertRow(d, c) ==
    IF c.dungeon_master \notin DOMAIN d.players
    THEN [err |-> "ErrForeignKey", id |-> 0, db |-> d]
    ELSE LET id == d.nextCampaignID
         IN  [err |-> "nil", id |-> id,
              db |-> [d EXCEPT
                        !.campaigns = [k \in DOMAIN d.campaigns \cup {id} |->
                                          IF k = id
                                          THEN [dungeon_master |-> c.dungeon_master,
                                                state |-> c.state,
                                                current_location |-> c.current_location]
                                          ELSE d.campaigns[k]],
                        !.nextCampaignID = id + 1]]

\* One participation link per listed character, in order; stops at the first failure.
RECURSIVE InsertLinks(_, _, _)
InsertLinks(d, campaignID, characterIDs) ==
    IF characterIDs = <<>> THEN [err |-> "nil", db |-> d]
    ELSE LET cid == Head(characterIDs)
         IN  IF cid \notin DOMAIN d.characters THEN [err |-> "ErrForeignKey", db |-> d]
             ELSE IF <<campaignID, cid>> \in d.belongsTo THEN [err |-> "ErrConflict", db |-> d]
             ELSE InsertLinks([d EXCEPT !.belongsTo = @ \cup {<<campaignID, cid>>}],
                              campaignID, Tail(characterIDs))

\* A failed transaction that keeps what its statements wrote.
NoRollback(before, after) == after

\* What the transaction leaves when a statement in it failed: the store as it was
\* before it began (a serial id handed out is not handed out again).
Rollback(before, after) == [before EXCEPT !.nextCampaignID = after.nextCampaignID]

\* Campaign creation with its participation links, in one transaction.
CampaignsInsert(d, c, characterIDs, fault) ==
    IF fault THEN [err |-> "ErrStorage", id |-> 0, db |-> d]
    ELSE LET row == CampaignInsertRow(d, c)
         IN  IF row.err # "nil" THEN [err |-> row.err, id |-> 0, db |-> Rollback(d, row.db)]
             ELSE LET links == InsertLinks(row.db, row.id, characterIDs)
                  IN  IF links.err # "nil"
                      THEN [err |-> links.err, id |-> 0, db |-> Rollback(d, links.db)]
                      ELSE [err |-> "nil", id |-> row.id, db |-> links.db]

CampaignsDelete(d, id, fault) ==
    IF fault THEN [err |-> "ErrStorage", db |-> d]
    ELSE [err |-> "nil",
          db |-> [d EXCEPT
                    !.campaigns = [k \in DOMAIN d.campaigns \ {id} |-> d.campaigns[k]],
                    !.belongsTo = {l \in d.belongsTo : l[1] # id}]]

\* CampaignModel.Update(id, state, location): the two columns of one row.
CampaignsUpdate(d, id, state, location, fault) ==
    IF fault THEN [err |-> "ErrStorage", db |-> d]
    ELSE [err |-> "nil",
          db |-> [d EXCEPT
                    !.campaigns = [k \in DOMAIN d.campaigns |->
                                      IF k = id
                                      THEN [d.campaigns[k] EXCEPT
                                              !.state = state,
                                              !.current_location = location]
                                      ELSE d.campaigns[k]]]]

CampaignsGetPlayersCreatedCampaigns(d, dungeonMaster, fault) ==
    IF fault THEN [err |-> "ErrStorage", campaigns |-> {}]
    ELSE [err |-> "nil",
          campaigns |-> {k \in DOMAIN d.campaigns :
                            d.campaigns[k].dungeon_master = dungeonMaster}]

CampaignsGetAllCharacterCampaigns(d, characterID, fault) ==
    IF fault THEN [err |-> "ErrStorage", campaigns |-> {}]
    ELSE [err |-> "nil",
          campaigns |-> {k \in DOMAIN d.campaigns : <<k, characterID>> \in d.belongsTo}]

\* Usernames owning a character in some campaign of the dungeon master.
CampaignsGetPlayersAttendedAny(d, dungeonMaster, fault) ==
    IF fault THEN [err |-> "ErrStorage", usernames |-> {}]
    ELSE [err |-> "nil",
          usernames |-> {u \in DOMAIN d.players :
                            \E k \in DOMAIN d.campaigns, c \in DOMAIN d.characters :
                               /\ d.campaigns[k].dungeon_master = dungeonMaster
                               /\ d.characters[c].player_username = u
                               /\ <<k, c>> \in d.belongsTo}]

\* Usernames owning, for every campaign of the dungeon master, a participating character.
CampaignsGetPlayersAttendedAll(d, dungeonMaster, fault) ==
    IF fault THEN [err |-> "ErrStorage", usernames |-> {}]
    ELSE LET mine == {k \in DOMAIN d.campaigns :
                         d.campaigns[k].dungeon_master = dungeonMaster}
             attends(u, k) == \E c \in DOMAIN d.characters :
                                 /\ d.characters[c].player_username = u
                                 /\ <<k, c>> \in d.belongsTo
         IN  [err |-> "nil",
              usernames |-> IF mine = {} THEN {}
                            ELSE {u \in DOMAIN d.players : \A k \in mine : attends(u, k)}]

StatsGetAll(d, fault) ==
    IF fault THEN [err |-> "ErrStorage", stats |-> Nil]
    ELSE [err |-> "nil",
          stats |-> [kind |-> "stats",
                     players |-> Cardinality(DOMAIN d.players),
                     characters |-> Cardinality(DOMAIN d.characters),
                     campaigns |-> Cardinality(DOMAIN d.campaigns)]]


(***************************************************************************)
(* Character handlers.                                                     *)
(***************************************************************************)
ResourceURI(prefix, id) == [kind |-> "resource_uri", prefix |-> prefix, id |-> id]

\* The owner left as the request body names it.
CharacterOwnerFromBody(body, creatorUsername) == body.player_username

\* The owner of a created character is the creator, whatever the body says.
CharacterOwner(body, creatorUsername) == creatorUsername

createCharacter(d, r) ==
    IF r.body.kind = "malformed"
    THEN Result(sendJSONResponse(422, "Character creation", "Could not process request", Nil),
                d, <<>>)
    ELSE LET creatorUsername == getUsernameFromToken(r)
         IN  IF TrimSpace(creatorUsername) = <<>>
             THEN Result(sendJSONResponse(401, "Character creation", "Creation failed", Nil),
                         d, <<>>)
             ELSE LET character == [player_username |->
                                       CharacterOwner(r.body, creatorUsername)]
                      ins == CharactersInsert(d, character, r.fault)
                      call == Call("characters.Insert", <<character.player_username>>, ins.err)
                  IN  IF ins.err # "nil"
                      THEN Result(sendJSONResponse(500, "Character creation",
                                      "Creation failed", Nil), ins.db, <<call>>)
                      ELSE Result(sendJSONResponse(201, "Character creation",
                                      "Creation successful",
                                      ResourceURI("/characters/", ins.id)),
                                  ins.db, <<call>>)

retrieveCharacter(d, r) ==
    LET charID == Atoi(r.path.id)
    IN  IF charID.err
        THEN Result(sendJSONResponse(422, "Character retrieval", "Retrieval failed", Nil),
                    d, <<>>)
        ELSE LET got == CharactersGet(d, charID.n, r.fault)
                 call == Call("characters.Get", <<charID.n>>, got.err)
             IN  IF got.err # "nil"
                 THEN IF got.err = "ErrNoRecord"
                      THEN Result(sendJSONResponse(404, "Character retrieval",
                                      "Retrieval failed", Nil), d, <<call>>)
                      ELSE Result(sendJSONResponse(500, "Character retrieval",
                                      "Retrieval failed", Nil), d, <<call>>)
                 ELSE Result(sendJSONResponse(200, "Character retrieval",
                                 "Retrieval successful", got.character), d, <<call>>)

retrieveUserCharacters(d, r) ==
    LET username == getUsernameFromToken(r)
    IN  IF TrimSpace(username) = <<>>
        THEN Result(sendJSONResponse(401, "Retrieve all user characters",
                        "Retrieval failed", Nil), d, <<>>)
        ELSE LET got == CharactersGetAllUserCharacters(d, username, r.fault)
                 call == Call("characters.GetAllUserCharacters", <<username>>, got.err)
             IN  IF got.err # "nil"
                 THEN IF got.err = "ErrNoRecord"
                      THEN Result(sendJSONResponse(404, "Retrieve all user characters",
                                      "Retrieval failed", Nil), d, <<call>>)
                      ELSE Result(sendJSONResponse(500, "Retrieve all user characters",
                                      "Retrieval failed", Nil), d, <<call>>)
                 ELSE Result(sendJSONResponse(200, "Retrieve all user characters",
                                 "Retrieval successful",
                                 [kind |-> "characters", characters |-> got.characters]),
                             d, <<call>>)

\* deleteCharacter taking an id it cannot parse for character 0.
deleteCharacterAnyID(d, r) ==
    LET numericCharID == Atoi(r.path.id)
        del == CharactersDelete(d, numericCharID.n, r.fault)
        call == Call("characters.Delete", <<numericCharID.n>>, del.err)
    IN  IF del.err # "nil"
        THEN Result(sendJSONResponse(500, "Character deletion",
                        "Deletion failed", Nil), del.db, <<call>>)
        ELSE Result(sendJSONResponse(200, "Character deletion",
                        "Deletion successful", Nil), del.db, <<call>>)

\* deleteCharacter refusing a character of another player.
deleteCharacterOwnerOnly(d, r) ==
    LET numericCharID == Atoi(r.path.id)
    IN  IF numericCharID.err
        THEN Result(sendJSONResponse(422, "Character deletion",
                        "Could not process request", Nil), d, <<>>)
        ELSE IF /\ numericCharID.n \in DOMAIN d.characters
                /\ d.characters[numericCharID.n].player_username # getUsernameFromToken(r)
        THEN Result(sendJSONResponse(401, "Character deletion", "Access denied", Nil),
                    d, <<>>)
        ELSE LET del == CharactersDelete(d, numericCharID.n, r.fault)
                 call == Call("characters.Delete", <<numericCharID.n>>, del.err)
             IN  IF del.err # "nil"
                 THEN Result(sendJSONResponse(500, "Character deletion",
                                 "Deletion failed", Nil), del.db, <<call>>)
                 ELSE Result(sendJSONResponse(200, "Character deletion",
                                 "Deletion successful", Nil), del.db, <<call>>)

deleteCharacter(d, r) ==
    LET numericCharID == Atoi(r.path.id)
    IN  IF numericCharID.err
        THEN Result(sendJSONResponse(422, "Character deletion",
                        "Could not process request", Nil), d, <<>>)
        ELSE LET del == CharactersDelete(d, numericCharID.n, r.fault)
                 call == Call("characters.Delete", <<numericCharID.n>>, del.err)
             IN  IF del.err # "nil"
                 THEN Result(sendJSONResponse(500, "Character deletion",
                                 "Deletion failed", Nil), del.db, <<call>>)
                 ELSE Result(sendJSONResponse(200, "Character deletion",
                                 "Deletion successful", Nil), del.db, <<call>>)

(***************************************************************************)
(* Spell handlers.                                                         *)
(***************************************************************************)
\* createSpell with the error of spells.Insert dropped.
createSpellIgnoringError(d, r) ==
    LET charID == Atoi(r.path.id)
    IN  IF charID.err \/ r.body.kind = "malformed"
        THEN Result(sendJSONResponse(422, "Spell creation", "Could not process request", Nil),
                    d, <<>>)
        ELSE LET ins == OwnedInsert(d, d.spells, charID.n, r.body.name, r.body.detail,
                                    r.fault)
                 call == Call("spells.Insert", <<charID.n, r.body.name>>, ins.err)
             IN  Result(sendJSONResponse(201, "Spell creation", "Creation successful", Nil),
                        [d EXCEPT !.spells = ins.table], <<call>>)

createSpell(d, r) ==
    LET charID == Atoi(r.path.id)
    IN  IF charID.err
        THEN Result(sendJSONResponse(422, "Spell creation", "Could not process request", Nil),
                    d, <<>>)
        ELSE IF r.body.kind = "malformed"
        THEN Result(sendJSONResponse(422, "Spell creation", "Could not process request", Nil),
                    d, <<>>)
        ELSE LET ins == OwnedInsert(d, d.spells, charID.n, r.body.name, r.body.detail,
                                r.fault)
                 call == Call("spells.Insert", <<charID.n, r.body.name>>, ins.err)
             IN  IF ins.err # "nil"
                 THEN Result(sendJSONResponse(500, "Spell creation", "Creation failed", Nil),
                             [d EXCEPT !.spells = ins.table], <<call>>)
                 ELSE Result(sendJSONResponse(201, "Spell creation",
                                 "Creation successful", Nil),
                             [d EXCEPT !.spells = ins.table], <<call>>)

retrieveSpell(d, r) ==
    LET charID == Atoi(r.path.id)
        decodedSpellName == QueryUnescape(r.path.name)
    IN  IF charID.err
        THEN Result(sendJSONResponse(422, "Spell retrieval", "Retrieval failed", Nil),
                    d, <<>>)
        ELSE IF decodedSpellName.err
        THEN Result(sendJSONResponse(422, "Spell retrieval", "Retrieval failed", Nil),
                    d, <<>>)
        ELSE LET got == OwnedGet(d.spells, charID.n, decodedSpellName.s, r.fault)
                 call == Call("spells.Get", <<charID.n, decodedSpellName.s>>, got.err)
             IN  IF got.err # "nil"
                 THEN Result(sendJSONResponse(404, "Spell retrieval", "Retrieval failed", Nil),
                             d, <<call>>)
                 ELSE Result(sendJSONResponse(200, "Spell retrieval",
                                 "Retrieval successful", got.row), d, <<call>>)

deleteSpell(d, r) ==
    LET charID == Atoi(r.path.id)
        decodedSpellName == QueryUnescape(r.path.name)
    IN  IF charID.err
        THEN Result(sendJSONResponse(422, "Spell deletion", "Deletion failed", Nil), d, <<>>)
        ELSE IF decodedSpellName.err
        THEN Result(sendJSONResponse(422, "Spell deletion", "Deletion failed", Nil), d, <<>>)
        ELSE LET del == OwnedDelete(d.spells, charID.n, decodedSpellName.s, r.fault)
                 call == Call("spells.Delete", <<charID.n, decodedSpellName.s>>, del.err)
             IN  IF del.err # "nil"
                 THEN IF del.err = "ErrNoRecord"
                      THEN Result(sendJSONResponse(404, "Spell deletion",
                                      "Deletion failed", Nil), d, <<call>>)
                      ELSE Result(sendJSONResponse(500, "Spell deletion",
                                      "Deletion failed", Nil), d, <<call>>)
                 ELSE Result(sendJSONResponse(200, "Spell deletion",
                                 "Deletion successful", Nil),
                             [d EXCEPT !.spells = del.table], <<call>>)

retrieveAllCharacterSpells(d, r) ==
    LET charID == Atoi(r.path.id)
    IN  IF charID.err
        THEN Result(sendJSONResponse(422, "Retrieve all character spells",
                        "Retrieval failed", Nil), d, <<>>)
        ELSE LET got == OwnedGetAll(d.spells, charID.n, r.fault)
                 call == Call("spells.GetAllCharacterSpells", <<charID.n>>, got.err)
             IN  IF got.err # "nil"
                 THEN Result(sendJSONResponse(404, "Retrieve all character spells",
                                 "Retrieval failed", Nil), d, <<call>>)
                 ELSE Result(sendJSONResponse(200, "Retrieve all character spells",
                                 "Retrieval successful",
                                 [kind |-> "spells", spells |-> got.rows]), d, <<call>>)

getCountSpellsPerSchool(d, r) ==
    LET charID == Atoi(r.path.id)
    IN  IF charID.err
        THEN Result(sendJSONResponse(422, "Retrieve count character spells per school",
                        "Retrieval failed", Nil), d, <<>>)
        ELSE LET got == OwnedGetAll(d.spells, charID.n, r.fault)
                 call == Call("spells.GetCountSpellsPerSchool", <<charID.n>>, got.err)
             IN  IF got.err # "nil"
                 THEN Result(sendJSONResponse(500,
                                 "Retrieve count character spells per school test",
                                 "Retrieval failed", Nil), d, <<call>>)
                 ELSE Result(sendJSONResponse(200,
                                 "Retrieve count character spells per school",
                                 "Retrieval successful",
                                 [kind |-> "spells_count", count |-> Cardinality(got.rows)]),
                             d, <<call>>)


(***************************************************************************)
(* Item handlers.                                                          *)
(***************************************************************************)
createItem(d, r) ==
    LET charID == Atoi(r.path.id)
    IN  IF charID.err
        THEN Result(sendJSONResponse(422, "Item creation", "Could not process request", Nil),
                    d, <<>>)
        ELSE IF r.body.kind = "malformed"
        THEN Result(sendJSONResponse(422, "Item creation", "Could not process request", Nil),
                    d, <<>>)
        ELSE LET ins == OwnedInsert(d, d.items, charID.n, r.body.name, r.body.detail,
                                r.fault)
                 call == Call("items.Insert", <<charID.n, r.body.name>>, ins.err)
             IN  IF ins.err # "nil"
                 THEN Result(sendJSONResponse(500, "Item creation", "Creation failed", Nil),
                             [d EXCEPT !.items = ins.table], <<call>>)
                 ELSE Result(sendJSONResponse(201, "Item creation",
                                 "Creation successful", Nil),
                             [d EXCEPT !.items = ins.table], <<call>>)

retrieveItem(d, r) ==
    LET charID == Atoi(r.path.id)
        decodedItemName == QueryUnescape(r.path.name)
    IN  IF charID.err
        THEN Result(sendJSONResponse(422, "Item retrieval", "Retrieval failed", Nil), d, <<>>)
        ELSE IF decodedItemName.err
        THEN Result(sendJSONResponse(422, "Item retrieval", "Retrieval failed", Nil), d, <<>>)
        ELSE LET got == OwnedGet(d.items, charID.n, decodedItemName.s, r.fault)
                 call == Call("items.Get", <<charID.n, decodedItemName.s>>, got.err)
             IN  IF got.err # "nil"
                 THEN IF got.err = "ErrNoRecord"
                      THEN Result(sendJSONResponse(404, "Item retrieval",
                                      "Retrieval failed", Nil), d, <<call>>)
                      ELSE Result(sendJSONResponse(500, "Item retrieval",
                                      "Retrieval failed", Nil), d, <<call>>)
                 ELSE Result(sendJSONResponse(200, "Item retrieval",
                                 "Retrieval successful", got.row), d, <<call>>)

retrieveAllCharacterItems(d, r) ==
    LET charID == Atoi(r.path.id)
    IN  IF charID.err
        THEN Result(sendJSONResponse(422, "Retrieve all character items",
                        "Retrieval failed", Nil), d, <<>>)
        ELSE LET got == OwnedGetAll(d.items, charID.n, r.fault)
                 call == Call("items.GetAllCharacterItems", <<charID.n>>, got.err)
             IN  IF got.err # "nil"
                 THEN Result(sendJSONResponse(404, "Retrieve all character items",
                                 "Retrieval failed", Nil), d, <<call>>)
                 ELSE Result(sendJSONResponse(200, "Retrieve all character items",
                                 "Retrieval successful",
                                 [kind |-> "items", items |-> got.rows]), d, <<call>>)

deleteItem(d, r) ==
    LET charID == Atoi(r.path.id)
        decodedItemName == QueryUnescape(r.path.name)
    IN  IF charID.err
        THEN Result(sendJSONResponse(422, "Item deletion", "Deletion failed", Nil), d, <<>>)
        ELSE IF decodedItemName.err
        THEN Result(sendJSONResponse(422, "Item deletion", "Deletion failed", Nil), d, <<>>)
        ELSE LET del == OwnedDelete(d.items, charID.n, decodedItemName.s, r.fault)
                 call == Call("items.Delete", <<charID.n, decodedItemName.s>>, del.err)
             IN  IF del.err # "nil"
                 THEN IF del.err = "ErrNoRecord"
                      THEN Result(sendJSONResponse(404, "Item deletion",
                                      "Deletion failed", Nil), d, <<call>>)
                      ELSE Result(sendJSONResponse(500, "Item deletion",
                                      "Deletion failed", Nil), d, <<call>>)
                 ELSE Result(sendJSONResponse(200, "Item deletion",
                                 "Deletion successful", Nil),
                             [d EXCEPT !.items = del.table], <<call>>)

getItemStats(d, r) ==
    LET charID == Atoi(r.path.id)
    IN  IF charID.err
        THEN Result(sendJSONResponse(422, "Retrieve character item stats",
                        "Retrieval failed", Nil), d, <<>>)
        ELSE LET got == OwnedGetAll(d.items, charID.n, r.fault)
                 call == Call("items.GetItemStats", <<charID.n>>, got.err)
             IN  IF got.err # "nil"
                 THEN Result(sendJSONResponse(500, "Retrieve character item stats",
                                 "Retrieval failed", Nil), d, <<call>>)
                 ELSE Result(sendJSONResponse(200, "Retrieve character item stats",
                                 "Retrieval successful",
                                 [kind |-> "item_stats", count |-> Cardinality(got.rows)]),
                             d, <<call>>)

(***************************************************************************)
(* Campaign and statistics handlers.                                       *)
(***************************************************************************)
createCampaign(d, r) ==
    IF r.body.kind = "malformed"
    THEN Result(sendJSONResponse(422, "Campaign creation", "Could not process request", Nil),
                d, <<>>)
    ELSE LET creatorUsername == getUsernameFromToken(r)
         IN  IF TrimSpace(creatorUsername) = <<>>
             THEN Result(sendJSONResponse(401, "Campaign creation", "Creation failed", Nil),
                         d, <<>>)
             ELSE LET CampaignInfo == [dungeon_master |-> creatorUsername,
                                       state |-> r.body.state,
                                       current_location |-> r.body.current_location]
                      ins == CampaignsInsert(d, CampaignInfo, r.body.character_id, r.fault)
                      call == Call("campaigns.Insert",
                                   <<CampaignInfo.dungeon_master, r.body.character_id>>,
                                   ins.err)
                  IN  IF ins.err # "nil"
                      THEN Result(sendJSONResponse(500, "Campaign creation",
                                      "Creation failed", Nil), ins.db, <<call>>)
                      ELSE Result(sendJSONResponse(201, "Campaign creation",
                                      "Creation successful",
                                      ResourceURI("/campaign/", ins.id)),
                                  ins.db, <<call>>)

\* updateCampaign handing the campaign to whoever sends the request.
updateCampaignReassigning(d, r) ==
    LET campaignID == Atoi(r.path.id)
        taken == [d EXCEPT
                    !.campaigns = [k \in DOMAIN d.campaigns |->
                                      IF k = campaignID.n
                                      THEN [d.campaigns[k] EXCEPT
                                              !.dungeon_master = getUsernameFromToken(r)]
                                      ELSE d.campaigns[k]]]
    IN  IF r.body.kind = "malformed" \/ campaignID.err
        THEN Result(sendJSONResponse(422, "Campaign modification",
                        "Modification failed", Nil), d, <<>>)
        ELSE Result(sendJSONResponse(200, "Campaign modification",
                        "Modification successful", Nil), taken, <<>>)

\* Not registered as a route.
updateCampaign(d, r) ==
    IF r.body.kind = "malformed"
    THEN Result(sendJSONResponse(422, "Campaign modification",
                    "Could not process request", Nil), d, <<>>)
    ELSE LET campaignID == Atoi(r.path.id)
         IN  IF campaignID.err
             THEN Result(sendJSONResponse(422, "Campaign modification",
                             "Modification failed", Nil), d, <<>>)
             ELSE LET upd == CampaignsUpdate(d, campaignID.n, r.body.state,
                                             r.body.location, r.fault)
                      call == Call("campaigns.Update",
                                   <<campaignID.n, r.body.state, r.body.location>>,
                                   upd.err)
                  IN  IF upd.err # "nil"
                      THEN Result(sendJSONResponse(500, "Campaign modification",
                                      "Modification failed", Nil), upd.db, <<call>>)
                      ELSE Result(sendJSONResponse(200, "Campaign modification",
                                      "Modification successful", Nil), upd.db, <<call>>)

deleteCampaign(d, r) ==
    LET campaignID == Atoi(r.path.id)
    IN  IF campaignID.err
        THEN Result(sendJSONResponse(422, "Campaign deletion", "Deletion failed", Nil),
                    d, <<>>)
        ELSE LET del == CampaignsDelete(d, campaignID.n, r.fault)
                 call == Call("campaigns.Delete", <<campaignID.n>>, del.err)
             IN  IF del.err # "nil"
                 THEN Result(sendJSONResponse(500, "Campaign deletion",
                                 "Deletion failed", Nil), del.db, <<call>>)
                 ELSE Result(sendJSONResponse(200, "Campaign deletion",
                                 "Deletion successful", Nil), del.db, <<call>>)

getsPlayersCreatedCampaigns(d, r) ==
    LET dungeonMaster == getUsernameFromToken(r)
    IN  IF TrimSpace(dungeonMaster) = <<>>
        THEN Result(sendJSONResponse(401, "Retrieve all player's started campaigns",
                        "Retrieval failed", Nil), d, <<>>)
        ELSE LET got == CampaignsGetPlayersCreatedCampaigns(d, dungeonMaster, r.fault)
                 call == Call("campaigns.GetPlayersCreatedCampaigns",
                              <<dungeonMaster>>, got.err)
             IN  IF got.err # "nil"
                 THEN Result(sendJSONResponse(500, "Retrieve all player's started campaigns",
                                 "Retrieval failed", Nil), d, <<call>>)
                 ELSE Result(sendJSONResponse(200, "Retrieve all player's started campaigns",
                                 "Retrieval successful",
                                 [kind |-> "campaigns", campaigns |-> got.campaigns]),
                             d, <<call>>)

getAllCharacterCampaigns(d, r) ==
    LET charID == Atoi(r.path.id)
    IN  IF charID.err
        THEN Result(sendJSONResponse(422, "Retrieve all character campaigns",
                        "Retrieval failed", Nil), d, <<>>)
        ELSE LET got == CampaignsGetAllCharacterCampaigns(d, charID.n, r.fault)
                 call == Call("campaigns.GetAllCharacterCampaigns", <<charID.n>>, got.err)
             IN  IF got.err # "nil"
                 THEN Result(sendJSONResponse(500, "Retrieve all character campaigns",
                                 "Retrieval failed", Nil), d, <<call>>)
                 ELSE Result(sendJSONResponse(200, "Retrieve all character campaigns",
                                 "Retrieval successful",
                                 [kind |-> "campaigns", campaigns |-> got.campaigns]),
                             d, <<call>>)

AttendanceCategory ==
    "Campaign stats - Players with perfect attendance in requestor's created campaigns"

getPlayersAttendedAll(d, r) ==
    LET dungeonMaster == getUsernameFromToken(r)
    IN  IF TrimSpace(dungeonMaster) = <<>>
        THEN Result(sendJSONResponse(401, AttendanceCategory, "Access denied", Nil), d, <<>>)
        ELSE LET got == CampaignsGetPlayersAttendedAll(d, dungeonMaster, r.fault)
                 call == Call("campaigns.GetPlayersAttendedAll", <<dungeonMaster>>, got.err)
             IN  IF got.err # "nil"
                 THEN Result(sendJSONResponse(401,
                                 "Campaign stats -  Players with perfect attendance in requestor's created campaigns",
                                 "Retrieval failed", Nil), d, <<call>>)
                 ELSE Result(sendJSONResponse(200, AttendanceCategory,
                                 "Retrieval successful",
                                 [kind |-> "usernames", usernames |-> got.usernames]),
                             d, <<call>>)

retrieveAllStats(d, r) ==
    LET got == StatsGetAll(d, r.fault)
        call == Call("stats.GetAll", <<>>, got.err)
    IN  IF got.err # "nil"
        THEN Result(sendJSONResponse(500, "Retrieve all stats", "Retrieval failed", Nil),
                    d, <<call>>)
        ELSE Result(sendJSONResponse(200, "Retrieve all stats", "Retrieval successful",
                        got.stats), d, <<call>>)


(***************************************************************************)
(* registerRoutes (server/routes.go): four public routes, and the /auth    *)
(* group behind the JWT middleware.                                        *)
(***************************************************************************)
Route(method, path, auth, handler) ==
    [method |-> method, path |-> path, auth |-> auth, handler |-> handler]

Routes ==
    [k \in {"login", "register", "publicCharacter", "stat",
            "player", "password", "me",
            "createCharacter", "myCharacters", "character", "deleteCharacter",
            "createSpell", "spell", "spells", "deleteSpell", "spellCount",
            "createItem", "item", "items", "deleteItem", "itemStats",
            "createCampaign", "deleteCampaign", "attendance", "myCampaigns",
            "characterCampaigns"} |->
        CASE k = "login" -> Route("POST", "/login", FALSE, "loginPlayer")
          [] k = "register" -> Route("POST", "/register", FALSE, "createPlayer")
          [] k = "publicCharacter" ->
                Route("GET", "/character/:id", FALSE, "retrieveCharacter")
          [] k = "stat" -> Route("GET", "/stat", FALSE, "retrieveAllStats")
          [] k = "player" ->
                Route("GET", "/auth/player/:username", TRUE, "retrievePlayer")
          [] k = "password" ->
                Route("PUT", "/auth/player/me/password", TRUE, "changePlayerPassword")
          [] k = "me" -> Route("DELETE", "/auth/player/me", TRUE, "deletePlayerSelf")
          [] k = "createCharacter" ->
                Route("POST", "/auth/character", TRUE, "createCharacter")
          [] k = "myCharacters" ->
                Route("GET", "/auth/character/me", TRUE, "retrieveUserCharacters")
          [] k = "character" ->
                Route("GET", "/auth/character/:id", TRUE, "retrieveCharacter")
          [] k = "deleteCharacter" ->
                Route("DELETE", "/auth/character/:id", TRUE, "deleteCharacter")
          [] k = "createSpell" ->
                Route("POST", "/auth/character/:id/spell", TRUE, "createSpell")
          [] k = "spell" ->
                Route("GET", "/auth/character/:id/spell/:name", TRUE, "retrieveSpell")
          [] k = "spells" ->
                Route("GET", "/auth/character/:id/spell", TRUE,
                      "retrieveAllCharacterSpells")
          [] k = "deleteSpell" ->
                Route("DELETE", "/auth/character/:id/spell/:name", TRUE, "deleteSpell")
          [] k = "spellCount" ->
                Route("GET", "/auth/character/:id/spell/count-per-school", TRUE,
                      "getCountSpellsPerSchool")
          [] k = "createItem" ->
                Route("POST", "/auth/character/:id/item", TRUE, "createItem")
          [] k = "item" ->
                Route("GET", "/auth/character/:id/item/:name", TRUE, "retrieveItem")
          [] k = "items" ->
                Route("GET", "/auth/character/:id/item", TRUE,
                      "retrieveAllCharacterItems")
          [] k = "deleteItem" ->
                Route("DELETE", "/auth/character/:id/item/:name", TRUE, "deleteItem")
          [] k = "itemStats" ->
                Route("GET", "/auth/character/:id/item/stats", TRUE, "getItemStats")
          [] k = "createCampaign" ->
                Route("POST", "/auth/campaign", TRUE, "createCampaign")
          [] k = "deleteCampaign" ->
                Route("DELETE", "/auth/campaign/:id", TRUE, "deleteCampaign")
          [] k = "attendance" ->
                Route("GET", "/auth/campaign/me/stats/player-attendance", TRUE,
                      "getPlayersAttendedAll")
          [] k = "myCampaigns" ->
                Route("GET", "/auth/campaign/me", TRUE, "getsPlayersCreatedCampaigns")
          [] k = "characterCampaigns" ->
                Route("GET", "/auth/character/:id/campaign", TRUE,
                      "getAllCharacterCampaigns")]

\* The character deletion route registered outside the /auth group.
registerRoutesUnguarded(k) ==
    IF k = "deleteCharacter" THEN [Routes[k] EXCEPT !.auth = FALSE] ELSE Routes[k]

registerRoutes(k) == Routes[k]

\* The middleware also refusing a token whose subject is not a stored player.
ServeStoredPlayersOnly(d, r, handled) ==
    IF /\ registerRoutes(r.route).auth
       /\ (~ValidToken(r.tok) \/ r.tok.sub \notin DOMAIN d.players)
    THEN Result(GateReject, d, <<>>)
    ELSE handled

\* The JWT middleware of the /auth group: a request without a valid token is
\* answered 401 and its handler does not run.
Serve(d, r, handled) ==
    IF registerRoutes(r.route).auth /\ ~ValidToken(r.tok)
    THEN Result(GateReject, d, <<>>)
    ELSE handled


(***************************************************************************)
(* Requests. A request names its route and carries a token (or none), the  *)
(* path parameters and a body; `fault` says whether the store fails on it. *)
(***************************************************************************)
Path(username, id, name) == [username |-> username, id |-> id, name |-> name]
NoPath == Path(<<>>, <<>>, <<>>)
NoBodySent == [kind |-> "none"]
MalformedBody == [kind |-> "malformed"]

Request(route, tok, path, body, fault) ==
    [route |-> route, tok |-> tok, path |-> path, body |-> body, fault |-> fault]

NoReg == [kind |-> "none"]

\* Tokens the gate refuses: none, garbage, a token signed with another key,
\* and a token the server has signed, after its expiry.
InvalidTokens(forged) ==
    {NoToken, Malformed}
        \cup {JWT(u, "bad", FALSE) : u \in forged}
        \cup {JWT(u, "ok", TRUE) : u \in issued}

\* Tokens the gate accepts: every token the server has signed, before its expiry.
ValidTokens == {JWT(u, "ok", FALSE) : u \in issued}

\* The requests presented to a guarded route: every path and body with every
\* token the gate accepts, with and without a failing store; one path and body
\* with every token it refuses, which never gets as far as the store.
Presented(In, route, paths, bodies, path, body) ==
    {Request(route, tok, p, b, f) :
        tok \in ValidTokens, p \in paths, b \in bodies, f \in In.faults}
    \cup {Request(route, tok, path, body, FALSE) : tok \in InvalidTokens(In.forged)}

\* The server has no request in hand.
Ready == req.route = "none"

\* Serving one request: the whole of gate, handler and repository calls.
Do(r, handled) ==
    /\ Ready
    /\ \E res \in {Serve(db, r, handled)} :
          LET handler == registerRoutes(r.route).handler
              touched == {res.calls[i].args[1] :
                             i \in {j \in 1..Len(res.calls) :
                                       res.calls[j].op \in {"players.UpdatePassword",
                                                            "players.Delete"}}}
          IN  /\ req' = r
              /\ pre' = db
              /\ resp' = res.resp
              /\ calls' = res.calls
              /\ db' = res.db
              /\ issued' = IF handler = "loginPlayer" /\ res.resp.status = 200
                           THEN issued \cup {res.resp.data.token.sub}
                           ELSE issued
              /\ reg' = [u \in Usernames |->
                           IF /\ handler = "createPlayer"
                              /\ res.resp.status = 201
                              /\ r.body.username = u
                           THEN [kind |-> "registered", password |-> r.body.password,
                                 name |-> r.body.name]
                           ELSE IF u \in touched THEN NoReg
                           ELSE reg[u]]

\* The input sets of the spell and item specification: two characters, two
\* details under one name.
Inventory ==
    [users |-> {Alice},
     registerPasswords |-> {<<"a">>},
     loginPasswords |-> {<<"a">>},
     newPasswords |-> {},
     confirmations |-> {},
     forged |-> {},
     claimed |-> {},
     faults |-> BOOLEAN,
     ids |-> {<<"1">>, <<"2">>, <<"x">>},
     bodyNames |-> {<<"f">>},
     pathNames |-> {<<"f">>, <<"%">>},
     details |-> {"d", "e"},
     characters |-> MaxInventoryCharacters,
     campaigns |-> 0,
     lists |-> {}]

\* The input sets of the name specification: one character, names with a
\* letter, a plus sign or a space, and path segments that spell them raw or
\* percent-encoded, or are not a percent-encoding at all.
Naming ==
    [users |-> {Alice},
     registerPasswords |-> {<<"a">>},
     loginPasswords |-> {<<"a">>},
     newPasswords |-> {},
     confirmations |-> {},
     forged |-> {},
     claimed |-> {},
     faults |-> {FALSE},
     ids |-> {<<"1">>},
     bodyNames |-> {<<"f">>, <<"+">>, <<" ">>},
     pathNames |-> {<<"f">>, <<"%", "6", "6">>, <<"+">>, <<"%", "2", "B">>,
                    <<"%", "2", "0">>, <<"%">>, <<"%", "f">>},
     details |-> {"d"},
     characters |-> MaxCharacters,
     campaigns |-> 0,
     lists |-> {}]

\* The input sets of the campaign specification: two players, a character
\* each, two campaigns with one or both characters taking part.
Campaigning ==
    [users |-> {Alice, Bob},
     registerPasswords |-> {<<"a">>},
     loginPasswords |-> {<<"a">>},
     newPasswords |-> {},
     confirmations |-> {},
     forged |-> {},
     claimed |-> {},
     faults |-> BOOLEAN,
     ids |-> {<<"1">>, <<"x">>},
     bodyNames |-> {},
     pathNames |-> {},
     details |-> {},
     characters |-> MaxAttendanceCharacters,
     campaigns |-> MaxAttendanceCampaigns,
     lists |-> {<<1>>, <<2>>, <<1, 2>>}]

PathIDs == {<<"1">>, <<"x">>}
BodyNames == {<<"f">>}
PathNames == {<<"f">>, <<"%">>}
CharacterLists == {<<>>, <<1>>, <<1, MaxCharacters + 1>>}

\* The input sets of the whole-system specification.
System ==
    [users |-> {Alice, Bob},
     registerPasswords |-> {<<"a">>},
     loginPasswords |-> {<<"a">>, <<"a", "a">>},
     newPasswords |-> {<<"a", "a">>, <<" ">>},
     confirmations |-> {<<"a", "a">>, <<"a">>},
     forged |-> {Alice},
     claimed |-> {Bob},
     faults |-> BOOLEAN,
     ids |-> PathIDs,
     bodyNames |-> BodyNames,
     pathNames |-> PathNames,
     details |-> {"d"},
     characters |-> MaxCharacters,
     campaigns |-> MaxCampaigns,
     lists |-> CharacterLists]

\* The input sets of the player-route specification.
Accounts ==
    [users |-> Usernames,
     registerPasswords |-> {<<"a">>, <<" ", "a">>},
     loginPasswords |-> Strings,
     newPasswords |-> Strings,
     confirmations |-> Strings,
     forged |-> {Alice},
     claimed |-> {Bob},
     faults |-> BOOLEAN,
     ids |-> PathIDs,
     bodyNames |-> BodyNames,
     pathNames |-> PathNames,
     details |-> {"d"},
     characters |-> MaxCharacters,
     campaigns |-> MaxCampaigns,
     lists |-> CharacterLists]


\* Requests as updateCampaign would get them, were it registered.
CampaignUpdates ==
    {Request("unrouted", tok, Path(<<>>, id, <<>>), body, f) :
        tok \in ValidTokens, id \in PathIDs,
        body \in {MalformedBody, [kind |-> "json", state |-> "closed", location |-> "sea"]},
        f \in BOOLEAN}


(***************************************************************************)
(* One action per registered route.                                        *)
(***************************************************************************)
PostRegister(In) ==
    /\ Ready
    /\ \E body \in {MalformedBody}
               \cup {[kind |-> "json", username |-> u, password |-> p, name |-> DisplayName] :
                        u \in In.users, p \in In.registerPasswords},
          f \in In.faults :
           LET r == Request("register", NoToken, NoPath, body, f)
           IN  Do(r, createPlayer(db, r))

PostLogin(In) ==
    /\ Ready
    /\ \E body \in {MalformedBody}
               \cup {[kind |-> "json", username |-> u, password |-> p] :
                        u \in In.users, p \in In.loginPasswords},
          f \in In.faults :
           LET r == Request("login", NoToken, NoPath, body, f)
           IN  Do(r, loginPlayer(db, r))

GetPlayer(In) ==
    /\ Ready
    /\ \E r \in Presented(In, "player", {Path(u, <<>>, <<>>) : u \in In.users}, {NoBodySent},
                          Path(Alice, <<>>, <<>>), NoBodySent) :
           Do(r, retrievePlayer(db, r))

PutPassword(In) ==
    /\ Ready
    /\ \E r \in Presented(In, "password", {NoPath},
                          {MalformedBody}
                             \cup {[kind |-> "json", new_password |-> n, confirmation |-> c,
                                    username |-> u] :
                                      n \in In.newPasswords, c \in In.confirmations,
                                      u \in In.claimed},
                          NoPath,
                          [kind |-> "json", new_password |-> <<"a", "a">>,
                           confirmation |-> <<"a", "a">>, username |-> Bob]) :
           Do(r, changePlayerPassword(db, r))

DeleteMe(In) ==
    /\ Ready
    /\ \E r \in Presented(In, "me", {NoPath}, {NoBodySent}, NoPath, NoBodySent) :
           Do(r, deletePlayerSelf(db, r))

PostCharacter(In) ==
    /\ Ready
    /\ db.nextCharacterID <= In.characters
    /\ \E r \in Presented(In, "createCharacter", {NoPath},
                          {MalformedBody}
                             \cup {[kind |-> "json", player_username |-> u] :
                                      u \in In.users},
                          NoPath, [kind |-> "json", player_username |-> Alice]) :
           Do(r, createCharacter(db, r))

\* The requests to a route that takes a token and nothing else.
TokenOnly(In, route) ==
    Presented(In, route, {NoPath}, {NoBodySent}, NoPath, NoBodySent)

\* The requests to a route that takes a token and a numeric id in its path.
ByID(In, route) ==
    Presented(In, route, {Path(<<>>, id, <<>>) : id \in In.ids}, {NoBodySent},
              Path(<<>>, <<"1">>, <<>>), NoBodySent)

\* The requests to a route that takes a token, an id and a name in its path.
ByName(In, route) ==
    Presented(In, route,
              {Path(<<>>, id, name) : id \in In.ids, name \in In.pathNames},
              {NoBodySent}, Path(<<>>, <<"1">>, <<"f">>), NoBodySent)

\* The requests to a route that takes a token, an id in its path and a spell
\* or item as its body.
PostOwned(In, route) ==
    Presented(In, route, {Path(<<>>, id, <<>>) : id \in In.ids},
              {MalformedBody}
                 \cup {[kind |-> "json", name |-> n, detail |-> x] :
                          n \in In.bodyNames, x \in In.details},
              Path(<<>>, <<"1">>, <<>>),
              [kind |-> "json", name |-> <<"f">>, detail |-> "d"])

GetMyCharacters(In) ==
    /\ Ready
    /\ \E r \in TokenOnly(In, "myCharacters") : Do(r, retrieveUserCharacters(db, r))

GetCharacter(In) ==
    /\ Ready
    /\ \E r \in ByID(In, "character") : Do(r, retrieveCharacter(db, r))

GetPublicCharacter(In) ==
    /\ Ready
    /\ \E id \in In.ids, f \in In.faults :
           LET r == Request("publicCharacter", NoToken, Path(<<>>, id, <<>>), NoBodySent, f)
           IN  Do(r, retrieveCharacter(db, r))

DeleteCharacter(In) ==
    /\ Ready
    /\ \E r \in ByID(In, "deleteCharacter") : Do(r, deleteCharacter(db, r))

PostSpell(In) ==
    /\ Ready
    /\ \E r \in PostOwned(In, "createSpell") : Do(r, createSpell(db, r))

GetSpell(In) ==
    /\ Ready
    /\ \E r \in ByName(In, "spell") : Do(r, retrieveSpell(db, r))

GetSpells(In) ==
    /\ Ready
    /\ \E r \in ByID(In, "spells") : Do(r, retrieveAllCharacterSpells(db, r))

DeleteSpell(In) ==
    /\ Ready
    /\ \E r \in ByName(In, "deleteSpell") : Do(r, deleteSpell(db, r))

GetSpellCount(In) ==
    /\ Ready
    /\ \E r \in ByID(In, "spellCount") : Do(r, getCountSpellsPerSchool(db, r))

PostItem(In) ==
    /\ Ready
    /\ \E r \in PostOwned(In, "createItem") : Do(r, createItem(db, r))

GetItem(In) ==
    /\ Ready
    /\ \E r \in ByName(In, "item") : Do(r, retrieveItem(db, r))

GetItems(In) ==
    /\ Ready
    /\ \E r \in ByID(In, "items") : Do(r, retrieveAllCharacterItems(db, r))

DeleteItem(In) ==
    /\ Ready
    /\ \E r \in ByName(In, "deleteItem") : Do(r, deleteItem(db, r))

GetItemStats(In) ==
    /\ Ready
    /\ \E r \in ByID(In, "itemStats") : Do(r, getItemStats(db, r))

PostCampaign(In) ==
    /\ Ready
    /\ db.nextCampaignID <= In.campaigns
    /\ \E r \in Presented(In, "createCampaign", {NoPath},
                          {MalformedBody}
                             \cup {[kind |-> "json", dungeon_master |-> u,
                                    state |-> "open", current_location |-> "inn",
                                    character_id |-> ids] :
                                      u \in In.users, ids \in In.lists},
                          NoPath,
                          [kind |-> "json", dungeon_master |-> Alice, state |-> "open",
                           current_location |-> "inn", character_id |-> <<1>>]) :
           Do(r, createCampaign(db, r))

DeleteCampaign(In) ==
    /\ Ready
    /\ \E r \in ByID(In, "deleteCampaign") : Do(r, deleteCampaign(db, r))

GetAttendance(In) ==
    /\ Ready
    /\ \E r \in TokenOnly(In, "attendance") : Do(r, getPlayersAttendedAll(db, r))

GetMyCampaigns(In) ==
    /\ Ready
    /\ \E r \in TokenOnly(In, "myCampaigns") : Do(r, getsPlayersCreatedCampaigns(db, r))

GetCharacterCampaigns(In) ==
    /\ Ready
    /\ \E r \in ByID(In, "characterCampaigns") : Do(r, getAllCharacterCampaigns(db, r))

GetStat(In) ==
    /\ Ready
    /\ \E f \in In.faults :
           LET r == Request("stat", NoToken, NoPath, NoBodySent, f)
           IN  Do(r, retrieveAllStats(db, r))

(***************************************************************************)
(* The server after start-up: an empty store, no token signed, nothing     *)
(* served yet.                                                             *)
(***************************************************************************)
Idle == Request("none", NoToken, NoPath, NoBodySent, FALSE)
NoResponse ==
    [by |-> "none", status |-> 0, envelope |-> TRUE,
     category |-> "", message |-> "", data |-> Nil]

\* The response has been written: the server forgets the request.
Respond ==
    /\ req.route # "none"
    /\ req' = Idle
    /\ resp' = NoResponse
    /\ calls' = <<>>
    /\ pre' = db
    /\ UNCHANGED <<db, issued, reg>>

Init ==
    /\ db = [players |-> [u \in {} |-> Nil],
             characters |-> [c \in {} |-> Nil],
             campaigns |-> [k \in {} |-> Nil],
             belongsTo |-> {},
             spells |-> {},
             items |-> {},
             nextCharacterID |-> 1,
             nextCampaignID |-> 1]
    /\ issued = {}
    /\ req = Idle
    /\ resp = NoResponse
    /\ calls = <<>>
    /\ pre = db
    /\ reg = [u \in Usernames |-> NoReg]

Next ==
    \/ PostRegister(System)
    \/ PostLogin(System)
    \/ GetPlayer(System)
    \/ PutPassword(System)
    \/ DeleteMe(System)
    \/ PostCharacter(System)
    \/ GetMyCharacters(System)
    \/ GetCharacter(System)
    \/ GetPublicCharacter(System)
    \/ DeleteCharacter(System)
    \/ PostSpell(System)
    \/ GetSpell(System)
    \/ GetSpells(System)
    \/ DeleteSpell(System)
    \/ GetSpellCount(System)
    \/ PostItem(System)
    \/ GetItem(System)
    \/ GetItems(System)
    \/ DeleteItem(System)
    \/ GetItemStats(System)
    \/ PostCampaign(System)
    \/ DeleteCampaign(System)
    \/ GetAttendance(System)
    \/ GetMyCampaigns(System)
    \/ GetCharacterCampaigns(System)
    \/ GetStat(System)
    \/ Respond

Spec == Init /\ [][Next]_vars

\* The player routes alone, over every password string up to MaxLen.
NextAccounts ==
    \/ PostRegister(Accounts)
    \/ PostLogin(Accounts)
    \/ GetPlayer(Accounts)
    \/ PutPassword(Accounts)
    \/ DeleteMe(Accounts)
    \/ Respond

SpecAccounts == Init /\ [][NextAccounts]_vars

\* The character, spell and item routes over two characters.
NextInventory ==
    \/ PostRegister(Inventory)
    \/ PostLogin(Inventory)
    \/ PostCharacter(Inventory)
    \/ DeleteCharacter(Inventory)
    \/ PostSpell(Inventory)
    \/ GetSpell(Inventory)
    \/ GetSpells(Inventory)
    \/ DeleteSpell(Inventory)
    \/ PostItem(Inventory)
    \/ GetItem(Inventory)
    \/ GetItems(Inventory)
    \/ DeleteItem(Inventory)
    \/ Respond

SpecInventory == Init /\ [][NextInventory]_vars

\* The spell and item routes over names that need encoding in a path.
NextNames ==
    \/ PostRegister(Naming)
    \/ PostLogin(Naming)
    \/ PostCharacter(Naming)
    \/ PostSpell(Naming)
    \/ GetSpell(Naming)
    \/ DeleteSpell(Naming)
    \/ PostItem(Naming)
    \/ GetItem(Naming)
    \/ DeleteItem(Naming)
    \/ Respond

SpecNames == Init /\ [][NextNames]_vars

\* The campaign routes over two players and two campaigns.
NextCampaigns ==
    \/ PostRegister(Campaigning)
    \/ PostLogin(Campaigning)
    \/ PostCharacter(Campaigning)
    \/ PostCampaign(Campaigning)
    \/ DeleteCampaign(Campaigning)
    \/ GetAttendance(Campaigning)
    \/ GetMyCampaigns(Campaigning)
    \/ GetCharacterCampaigns(Campaigning)
    \/ Respond

SpecCampaigns == Init /\ [][NextCampaigns]_vars


(***************************************************************************)
(* Properties. After a request is served and until its response is         *)
(* written, `req` is the request, `pre` the store before it, `db` the      *)
(* store after it, `resp` the response and `calls` the repository          *)
(* operations the handler invoked.                                         *)
(***************************************************************************)

\* C1: the stored password of a player B is changed only by a
\* PUT /auth/player/me/password whose validated token subject is B, and B's
\* record is removed only by a DELETE /auth/player/me whose validated token
\* subject is B; a request carrying a token for another player leaves B's
\* record as it was, whatever its body or path holds.
C1_OnlyOwnerChangesOrDeletes ==
    \A b \in DOMAIN pre.players :
        LET owner == ValidToken(req.tok) /\ req.tok.sub = b
            removed == b \notin DOMAIN db.players
            changed == ~removed /\ db.players[b] # pre.players[b]
            touched == \E i \in 1..Len(calls) :
                          /\ calls[i].op \in {"players.UpdatePassword", "players.Delete"}
                          /\ calls[i].args[1] = b
        IN  /\ removed => /\ Routes[req.route].method = "DELETE"
                          /\ Routes[req.route].path = "/auth/player/me"
                          /\ owner
            /\ changed => /\ Routes[req.route].method = "PUT"
                          /\ Routes[req.route].path = "/auth/player/me/password"
                          /\ owner
                          /\ db.players[b].name = pre.players[b].name
            /\ touched => owner
            /\ (req.tok.kind = "jwt" /\ req.tok.sub # b) => ~removed /\ ~changed

\* Alice, with her own token and a body naming Bob, has changed her password
\* while Bob is registered.
C1_Witness ==
    /\ req.route = "password"
    /\ ValidToken(req.tok)
    /\ req.tok.sub = Alice
    /\ req.body.kind = "json"
    /\ req.body.username = Bob
    /\ Bob \in DOMAIN pre.players
    /\ Alice \in DOMAIN pre.players
    /\ db.players[Alice].password_hash # pre.players[Alice].password_hash
    /\ db.players[Bob] = pre.players[Bob]

\* C2: every route under /auth answers a request without a valid token (none,
\* expired, malformed or badly signed) with 401 before its handler runs: no
\* repository operation is invoked and the store is unchanged; a handler is
\* reached without a valid token on POST /login, POST /register,
\* GET /character/:id and GET /stat only.
C2_AuthGate ==
    req.route # "none" =>
        LET route == Routes[req.route]
            public == {<<"POST", "/login">>, <<"POST", "/register">>,
                       <<"GET", "/character/:id">>, <<"GET", "/stat">>}
        IN  /\ (<<route.method, route.path>> \notin public /\ ~ValidToken(req.tok)) =>
                   /\ resp.status = 401
                   /\ resp.by = "gate"
                   /\ calls = <<>>
                   /\ db = pre
            /\ (resp.by = "handler" /\ ~ValidToken(req.tok)) =>
                   <<route.method, route.path>> \in public

\* An expired token is refused on DELETE /auth/character/1 while character 1
\* exists, and the character is still there.
C2_Witness ==
    /\ req.route = "deleteCharacter"
    /\ req.tok.kind = "jwt"
    /\ req.tok.sig = "ok"
    /\ req.tok.expired
    /\ req.path.id = <<"1">>
    /\ 1 \in DOMAIN db.characters
    /\ resp.status = 401

\* C3: GET /auth/player/:username answers 200 with the player record only when
\* the path username equals the validated token subject; when they differ it
\* answers 401 with no data and looks no player up.
C3_PlayerReadOwnerOnly ==
    (req.route = "player" /\ resp.by = "handler") =>
        /\ resp.status = 200 =>
              /\ req.path.username = req.tok.sub
              /\ resp.data = [kind |-> "player", username |-> req.tok.sub,
                              name |-> pre.players[req.tok.sub].name]
        /\ resp.data # Nil => resp.status = 200
        /\ req.path.username # req.tok.sub =>
              /\ resp.status = 401
              /\ resp.data = Nil
              /\ calls = <<>>

\* Alice's valid token asks for Bob's registered record and gets 401.
C3_Witness ==
    /\ req.route = "player"
    /\ ValidToken(req.tok)
    /\ req.tok.sub = Alice
    /\ req.path.username = Bob
    /\ Bob \in DOMAIN pre.players
    /\ resp.status = 401
    /\ resp.by = "handler"

\* C4: after a successful registration of (u, p, n), and until a password
\* change or deletion of u, login with (u, p) answers 200 with a token whose
\* subject is u, login with (u, p') for p' # p answers 401,
\* GET /auth/player/u with that token answers 200 with u's record, and the
\* same GET without a token answers 401 (the successes, when the store does
\* not fail on the request).
C4_RegisterLoginRead ==
    \A u \in Usernames :
        reg[u].kind = "registered" =>
            /\ (req.route = "login" /\ req.body.kind = "json" /\ req.body.username = u) =>
                  IF req.body.password # reg[u].password \/ req.fault
                  THEN resp.status = 401 /\ resp.data = Nil
                  ELSE /\ resp.status = 200
                       /\ resp.data.username = u
                       /\ resp.data.token = JWT(u, "ok", FALSE)
                       /\ ValidToken(resp.data.token)
            /\ (req.route = "player" /\ req.path.username = u) =>
                  /\ (req.tok = JWT(u, "ok", FALSE) /\ ~req.fault) =>
                        /\ resp.status = 200
                        /\ resp.data = [kind |-> "player", username |-> u,
                                        name |-> reg[u].name]
                  /\ req.tok = NoToken => resp.status = 401 /\ resp.data = Nil

\* Alice, registered and logged in, reads her own record with her token.
C4_Witness ==
    /\ reg[Alice].kind = "registered"
    /\ req.route = "player"
    /\ req.path.username = Alice
    /\ req.tok = JWT(Alice, "ok", FALSE)
    /\ Alice \in issued
    /\ resp.status = 200

\* C5: a failed login gives the same response (status 401, category, message,
\* no data) whether the username is not registered or is registered with
\* another password: the response to the request is the response the same
\* request gets from the store with that username taken out.
C5_LoginFailureUniform ==
    (req.route = "login" /\ req.body.kind = "json" /\ resp.status # 200) =>
        LET others == DOMAIN pre.players \ {req.body.username}
            unregistered == [pre EXCEPT !.players = [u \in others |-> pre.players[u]]]
        IN  /\ resp = Serve(unregistered, req, loginPlayer(unregistered, req)).resp
            /\ resp.status = 401
            /\ resp.category = "Player login"
            /\ resp.message = "Login failed"
            /\ resp.data = Nil

\* A login fails on a registered username with a wrong password.
C5_Witness ==
    /\ req.route = "login"
    /\ req.body.kind = "json"
    /\ req.body.username \in DOMAIN pre.players
    /\ Len(calls) = 1
    /\ calls[1].err = "ErrInvalidCredentials"
    /\ resp.status = 401

\* C6: registering a username that is already registered fails (500, never
\* 201) and leaves the existing record unchanged: hash and display name are
\* those of the first registration, login with the first password still
\* succeeds and login with the second registration's password does not.
C6_DuplicateRegistrationFails ==
    (req.route = "register" /\ req.body.kind = "json"
        /\ req.body.username \in DOMAIN pre.players) =>
        LET u == req.body.username
            login(p) == Request("login", NoToken, NoPath,
                                [kind |-> "json", username |-> u, password |-> p], FALSE)
        IN  /\ resp.status = 500
            /\ resp.status # 201
            /\ db.players = pre.players
            /\ reg[u].kind = "registered" =>
                  /\ db.players[u] = [password_hash |-> Hash(reg[u].password),
                                      name |-> reg[u].name]
                  /\ loginPlayer(db, login(reg[u].password)).resp.status = 200
                  /\ req.body.password # reg[u].password =>
                        loginPlayer(db, login(req.body.password)).resp.status = 401

\* A second registration of a registered username, with another password.
C6_Witness ==
    /\ req.route = "register"
    /\ req.body.kind = "json"
    /\ req.body.username \in DOMAIN pre.players
    /\ reg[req.body.username].kind = "registered"
    /\ req.body.password # reg[req.body.username].password
    /\ resp.status = 500

C8_AsStated ==
    (req.route = "password" /\ resp.by = "handler" /\ req.body.kind = "json") =>
        LET n == req.body.new_password
            c == req.body.confirmation
            blank(s) == TrimSpace(s) = <<>>
            updated == \E i \in 1..Len(calls) : calls[i].op = "players.UpdatePassword"
        IN  /\ (blank(n) \/ blank(c)) => resp.status = 422 /\ ~updated /\ db = pre
            /\ (~blank(n) /\ ~blank(c) /\ c # n) =>
                  resp.status = 400 /\ ~updated /\ db = pre
            /\ updated => ~blank(n) /\ ~blank(c) /\ c = n

\* C8, amended: both values are compared after trimming. A token with a blank
\* subject is refused with 401; otherwise a value empty after trimming is
\* refused with 422 and trimmed values that differ with 400, without invoking
\* the update and with the store unchanged; the update is invoked, with the
\* trimmed new password, exactly when both trimmed values are non-empty and
\* equal.
C8_PasswordChangeValidation ==
    (req.route = "password" /\ resp.by = "handler" /\ req.body.kind = "json") =>
        LET n == TrimSpace(req.body.new_password)
            c == TrimSpace(req.body.confirmation)
            updated == \E i \in 1..Len(calls) : calls[i].op = "players.UpdatePassword"
        IN  IF TrimSpace(req.tok.sub) = <<>>
            THEN resp.status = 401 /\ ~updated /\ db = pre
            ELSE /\ (n = <<>> \/ c = <<>>) => resp.status = 422 /\ ~updated /\ db = pre
                 /\ (n # <<>> /\ c # <<>> /\ c # n) =>
                       resp.status = 400 /\ ~updated /\ db = pre
                 /\ updated <=> (n # <<>> /\ c # <<>> /\ c = n)
                 /\ updated =>
                       /\ Len(calls) = 1
                       /\ calls[1].args = <<req.tok.sub, n>>
                       /\ (calls[1].err = "nil") = ~req.fault
                       /\ (req.tok.sub \in DOMAIN pre.players /\ ~req.fault) =>
                             db.players[req.tok.sub].password_hash = Hash(n)
                       /\ req.fault => db = pre
                 /\ db.players # pre.players => updated

\* A confirmation that differs from the new password by white space only is
\* accepted and the hash is overwritten.
C8_Witness ==
    /\ req.route = "password"
    /\ req.body.kind = "json"
    /\ req.body.new_password # req.body.confirmation
    /\ ValidToken(req.tok)
    /\ req.tok.sub \in DOMAIN pre.players
    /\ db.players[req.tok.sub].password_hash # pre.players[req.tok.sub].password_hash
    /\ db.players[req.tok.sub].password_hash = Hash(TrimSpace(req.body.confirmation))

\* C9: every outcome of every registered handler sends the envelope
\* {category, message, data}, with a category and a message; so do a
\* successful password change and a successful account deletion.
C9_EveryOutcomeEnvelope ==
    resp.by = "handler" =>
        /\ resp.envelope
        /\ resp.category # ""
        /\ resp.message # ""

\* C10: the owner of a created character and the dungeon master of a created
\* campaign are the validated token subject of the creating request, whatever
\* the body names; password change, account deletion, own-character listing,
\* own-campaign listing and attendance statistics act on the token subject.
C10_ActingIdentityFromToken ==
    /\ (req.route = "createCharacter" /\ resp.status = 201) =>
          /\ pre.nextCharacterID \notin DOMAIN pre.characters
          /\ pre.nextCharacterID \in DOMAIN db.characters
          /\ db.characters[pre.nextCharacterID].player_username = req.tok.sub
    /\ (req.route = "createCampaign" /\ resp.status = 201) =>
          /\ pre.nextCampaignID \notin DOMAIN pre.campaigns
          /\ pre.nextCampaignID \in DOMAIN db.campaigns
          /\ db.campaigns[pre.nextCampaignID].dungeon_master = req.tok.sub
    /\ req.route \in {"createCharacter", "createCampaign", "password", "me",
                      "myCharacters", "myCampaigns", "attendance"} =>
          \A i \in 1..Len(calls) : calls[i].args[1] = req.tok.sub

\* A player creates a character with a body that names another registered
\* player as its owner; the character is recorded under the creator.
C10_Witness ==
    /\ req.route = "createCharacter"
    /\ resp.status = 201
    /\ req.body.player_username # req.tok.sub
    /\ req.body.player_username \in DOMAIN pre.players
    /\ db.characters[pre.nextCharacterID].player_username = req.tok.sub

\* C11: the dungeon master of a campaign is the same in every later state in
\* which the campaign exists: no request to a registered route changes it
\* (and a campaign id is never handed out twice), and the campaign update
\* handler, which is not registered, changes state and location only.
C11_DungeonMasterFixed ==
    /\ \A k \in DOMAIN pre.campaigns \cap DOMAIN db.campaigns :
          db.campaigns[k].dungeon_master = pre.campaigns[k].dungeon_master
    /\ \A k \in DOMAIN db.campaigns \ DOMAIN pre.campaigns :
          k = pre.nextCampaignID /\ k < db.nextCampaignID
    /\ \A k \in DOMAIN db.campaigns : k < db.nextCampaignID
    /\ \A route \in DOMAIN Routes : Routes[route].handler # "updateCampaign"
    /\ Ready =>
          \A r \in CampaignUpdates :
             LET after == updateCampaign(db, r).db
             IN  /\ after = [db EXCEPT !.campaigns = after.campaigns]
                 /\ DOMAIN after.campaigns = DOMAIN db.campaigns
                 /\ \A k \in DOMAIN db.campaigns :
                       after.campaigns[k].dungeon_master
                          = db.campaigns[k].dungeon_master

\* Campaign 1 exists, the server is ready, and an update of campaign 1 sent by
\* another player than its dungeon master would change its state and leave its
\* dungeon master.
C11_Witness ==
    /\ Ready
    /\ 1 \in DOMAIN db.campaigns
    /\ \E r \in CampaignUpdates :
          LET after == updateCampaign(db, r).db
          IN  /\ r.tok.sub # db.campaigns[1].dungeon_master
              /\ after.campaigns[1].state = "closed"
              /\ after.campaigns[1].state # db.campaigns[1].state
              /\ after.campaigns[1].dungeon_master = db.campaigns[1].dungeon_master

C13_UniquePerCharacter ==
    /\ \A table \in {db.spells, db.items} :
          \A row \in table : Keyed(table, row[1], row[2]) = {row}
    /\ (req.route \in {"createSpell", "createItem"} /\ resp.by = "handler"
           /\ req.body.kind = "json" /\ ~Atoi(req.path.id).err) =>
          LET c == Atoi(req.path.id).n
              spell == req.route = "createSpell"
              before == IF spell THEN pre.spells ELSE pre.items
              after == IF spell THEN db.spells ELSE db.items
          IN  /\ Keyed(before, c, req.body.name) # {} =>
                    /\ resp.status = 500
                    /\ db = pre
              /\ (Keyed(before, c, req.body.name) = {} /\ c \in DOMAIN pre.characters
                     /\ ~req.fault) =>
                    /\ resp.status = 201
                    /\ after = before \cup {<<c, req.body.name, req.body.detail>>}
              /\ resp.status = 201 => Keyed(before, c, req.body.name) = {}

\* Character 2 gets a spell under the name character 1 already has a spell
\* under, after which both spells are stored.
C13_Witness ==
    /\ req.route = "createSpell"
    /\ req.body.kind = "json"
    /\ req.path.id = <<"2">>
    /\ Keyed(pre.spells, 1, req.body.name) # {}
    /\ resp.status = 201
    /\ Cardinality(db.spells) = 2

\* The campaigns of dungeon master dm that player u has no character in.
Missed(u, dm) ==
    {k \in DOMAIN pre.campaigns :
        /\ pre.campaigns[k].dungeon_master = dm
        /\ ~\E c \in DOMAIN pre.characters :
              /\ pre.characters[c].player_username = u
              /\ <<k, c>> \in pre.belongsTo}

\* C14: a successful attendance query by dungeon master dm lists exactly the
\* players who own a participating character in every campaign dm created, and
\* nobody when dm created no campaign.
C14_AttendedAll ==
    (req.route = "attendance" /\ resp.by = "handler") =>
       LET dm == req.tok.sub
           created == {k \in DOMAIN pre.campaigns : pre.campaigns[k].dungeon_master = dm}
       IN  /\ db = pre
           /\ resp.status = 200 <=> ~req.fault
           /\ resp.status = 200 =>
                 /\ resp.data.kind = "usernames"
                 /\ \A u \in Usernames :
                       u \in resp.data.usernames <=>
                          /\ u \in DOMAIN pre.players
                          /\ created # {}
                          /\ Missed(u, dm) = {}
                 /\ created = {} => resp.data.usernames = {}

\* The dungeon master created two campaigns; one player has a character in both
\* and is listed, the other has a character in one of them only and is not.
C14_Witness ==
    /\ req.route = "attendance"
    /\ resp.status = 200
    /\ Cardinality({k \in DOMAIN pre.campaigns :
                      pre.campaigns[k].dungeon_master = req.tok.sub}) = 2
    /\ Cardinality(resp.data.usernames) = 1
    /\ \E u \in DOMAIN pre.players \ resp.data.usernames :
          Cardinality(Missed(u, req.tok.sub)) = 1

\* The registered routes whose path carries a numeric :id.
NumericIDRoutes ==
    {"publicCharacter", "character", "deleteCharacter",
     "createSpell", "spell", "spells", "deleteSpell", "spellCount",
     "createItem", "item", "items", "deleteItem", "itemStats",
     "deleteCampaign", "characterCampaigns"}

Digits == {"0", "1", "2", "3", "4", "5", "6", "7", "8", "9"}

\* C15: a handler that takes a numeric path id answers an id that is not a
\* number with 422, calls no repository operation and leaves the store as it
\* was; so does the update handler no route reaches.
C15_UnparsableID ==
    /\ (/\ req.route \in NumericIDRoutes
        /\ resp.by = "handler"
        /\ \/ req.path.id = <<>>
           \/ \E i \in 1..Len(req.path.id) : req.path.id[i] \notin Digits) =>
          /\ resp.status = 422
          /\ resp.envelope
          /\ calls = <<>>
          /\ db = pre
    /\ Ready =>
          \A r \in CampaignUpdates :
             (\E i \in 1..Len(r.path.id) : r.path.id[i] \notin Digits) =>
                LET updated == updateCampaign(db, r)
                IN  /\ updated.resp.status = 422
                    /\ updated.calls = <<>>
                    /\ updated.db = db

\* DELETE /auth/character/x by a logged-in player while a character is stored.
C15_Witness ==
    /\ req.route = "deleteCharacter"
    /\ req.path.id = <<"x">>
    /\ ValidToken(req.tok)
    /\ DOMAIN pre.characters # {}
    /\ resp.status = 422

\* C16: a handler whose repository call failed answers by the kind of the
\* failure: 404 when the record is missing, 500 for every other persistence
\* failure; so no storage failure is answered with 404 or 401 and no missing
\* record with 500. (Login, whose failures are uniform by design, is left out.)
C16_FailureMappedByKind ==
    (resp.by = "handler" /\ calls # <<>> /\ req.route # "login") =>
       LET err == calls[Len(calls)].err
       IN  /\ err = "ErrNoRecord" => resp.status = 404
           /\ err \in {"ErrStorage", "ErrForeignKey", "ErrConflict"} => resp.status = 500

\* Percent-decoding of a path segment: %XY is the byte XY, every other
\* character is itself; a % without two hex digits after it is no encoding.
RECURSIVE PercentDecode(_)
PercentDecode(s) ==
    IF s = <<>> THEN [err |-> FALSE, s |-> <<>>]
    ELSE IF Head(s) = "%"
    THEN IF Len(s) < 3 \/ HexValue(s[2]) < 0 \/ HexValue(s[3]) < 0
         THEN [err |-> TRUE, s |-> <<>>]
         ELSE LET rest == PercentDecode(SubSeq(s, 4, Len(s)))
              IN  IF rest.err THEN rest
                  ELSE [err |-> FALSE,
                        s |-> <<ByteChar(16 * HexValue(s[2]) + HexValue(s[3]))>> \o rest.s]
    ELSE LET rest == PercentDecode(Tail(s))
         IN  IF rest.err THEN rest ELSE [err |-> FALSE, s |-> <<Head(s)>> \o rest.s]

\* C17: a spell or item stored for a character under a name is found by GET
\* and removed by DELETE under every percent-encoding of that name in the path,
\* and a path segment that is no percent-encoding is answered 422 without a
\* repository call.
C17_NameRoundTrip ==
    (/\ req.route \in {"spell", "deleteSpell", "item", "deleteItem"}
     /\ resp.by = "handler"
     /\ ~Atoi(req.path.id).err
     /\ ~req.fault) =>
       LET c == Atoi(req.path.id).n
           N == PercentDecode(req.path.name)
           spells == req.route \in {"spell", "deleteSpell"}
           before == IF spells THEN pre.spells ELSE pre.items
           after == IF spells THEN db.spells ELSE db.items
       IN  /\ N.err => resp.status = 422 /\ calls = <<>> /\ db = pre
           /\ (~N.err /\ Keyed(before, c, N.s) # {}) =>
                 /\ resp.status = 200
                 /\ req.route \in {"spell", "item"} =>
                       /\ resp.data.kind = "owned"
                       /\ resp.data.name = N.s
                 /\ req.route \in {"deleteSpell", "deleteItem"} =>
                       after = before \ Keyed(before, c, N.s)

\* C18: the resource routes do not check ownership: with any valid token a
\* well-formed DELETE of a campaign or character, and a well-formed creation or
\* deletion of a spell or item, reaches the repository with the id of the path,
\* whoever owns the character or runs the campaign, and a deletion the
\* repository carries out removes the row.
C18_NoOwnershipCheck ==
    (/\ req.route \in {"deleteCampaign", "deleteCharacter", "createSpell", "deleteSpell",
                       "createItem", "deleteItem"}
     /\ resp.by = "handler"
     /\ ~Atoi(req.path.id).err
     /\ req.route \in {"createSpell", "createItem"} => req.body.kind = "json"
     /\ req.route \in {"deleteSpell", "deleteItem"} => ~QueryUnescape(req.path.name).err) =>
       LET id == Atoi(req.path.id).n
       IN  /\ Len(calls) = 1
           /\ calls[1].args[1] = id
           /\ resp.status # 401
           /\ (req.route = "deleteCharacter" /\ ~req.fault) =>
                 /\ resp.status = 200
                 /\ id \notin DOMAIN db.characters
           /\ (req.route = "deleteCampaign" /\ ~req.fault) =>
                 /\ resp.status = 200
                 /\ id \notin DOMAIN db.campaigns

\* A player has deleted the character of another player.
C18_Witness ==
    /\ req.route = "deleteCharacter"
    /\ ValidToken(req.tok)
    /\ 1 \in DOMAIN pre.characters
    /\ pre.characters[1].player_username \in DOMAIN pre.players
    /\ pre.characters[1].player_username # req.tok.sub
    /\ resp.status = 200
    /\ 1 \notin DOMAIN db.characters

\* C19: a request invokes each repository operation at most once, and a
\* repository failure ends it: the failed call is the last one, it is not
\* tried again, and the one answer is an error.
C19_NoRetry ==
    /\ \A i, j \in 1..Len(calls) : calls[i].op = calls[j].op => i = j
    /\ \A i \in 1..Len(calls) :
          calls[i].err # "nil" =>
             /\ i = Len(calls)
             /\ resp.by = "handler"
             /\ resp.status >= 400

\* A registration the player store failed: one insert, answered 500.
C19_Witness ==
    /\ req.route = "register"
    /\ Len(calls) = 1
    /\ calls[1].op = "players.Insert"
    /\ calls[1].err = "ErrStorage"
    /\ resp.status = 500
    /\ db = pre

\* The routes that act for the player named by the token.
MeRoutes ==
    {"password", "me", "createCharacter", "myCharacters", "createCampaign",
     "attendance", "myCampaigns"}

\* C20: whether a token is accepted depends on its signature and expiry only,
\* not on the player store: a signed, unexpired token for u reaches the handler
\* of every /auth route, also after u changed the password or deleted the
\* account; GET /auth/player/u for a deleted u then passes the identity check
\* and answers 404, and the me-routes call their repositories under u.
C20_TokenOutlivesPlayer ==
    (req.route # "none" /\ Routes[req.route].auth /\ req.tok.kind = "jwt") =>
       /\ resp.by = "handler" <=> (req.tok.sig = "ok" /\ ~req.tok.expired)
       /\ (/\ resp.by = "handler"
           /\ req.route = "player"
           /\ req.path.username = req.tok.sub
           /\ req.tok.sub \notin DOMAIN pre.players) =>
             /\ resp.status = 404
             /\ Len(calls) = 1
             /\ calls[1].op = "players.Get"
             /\ calls[1].args = <<req.tok.sub>>
       /\ (resp.by = "handler" /\ req.route \in MeRoutes /\ calls # <<>>) =>
             calls[1].args[1] = req.tok.sub
       /\ (resp.by = "handler" /\ req.route = "me") =>
             /\ Len(calls) = 1
             /\ calls[1].op = "players.Delete"

\* A player who logged in and then deleted the account reads the own record
\* with the old token: the handler runs and finds nothing.
C20_Witness ==
    /\ req.route = "player"
    /\ ValidToken(req.tok)
    /\ req.tok.sub \in issued
    /\ req.tok.sub \notin DOMAIN pre.players
    /\ req.path.username = req.tok.sub
    /\ ~req.fault
    /\ resp.by = "handler"
    /\ resp.status = 404

\* C21: a successful password change hands the repository the new password
\* with leading and trailing white space removed, after comparing it with the
\* confirmation trimmed likewise, so requests whose passwords differ in
\* surrounding white space only leave the same credential; registration and
\* login pass the password as sent; and after a successful change a caller
\* whose record exists logs in with the trimmed new password and no longer
\* with a different password that worked before.
C21_TrimmedPasswordStored ==
    /\ (req.route \in {"register", "login"} /\ req.body.kind = "json") =>
          /\ Len(calls) = 1
          /\ calls[1].args = <<req.body.username, req.body.password>>
    /\ (/\ req.route = "password"
        /\ resp.by = "handler"
        /\ req.body.kind = "json"
        /\ resp.status = 200) =>
          LET u == req.tok.sub
              n == TrimSpace(req.body.new_password)
              login(password) ==
                 Request("login", NoToken, NoPath,
                         [kind |-> "json", username |-> u, password |-> password], FALSE)
          IN  /\ n = TrimSpace(req.body.confirmation)
              /\ calls = <<Call("players.UpdatePassword", <<u, n>>, "nil")>>
              /\ \A s \in Strings :
                    TrimSpace(s) = n =>
                       changePlayerPassword(pre,
                          [req EXCEPT !.body.new_password = s,
                                      !.body.confirmation = s]).db = db
              /\ u \in DOMAIN pre.players =>
                    /\ loginPlayer(db, login(n)).resp.status = 200
                    /\ \A p \in Strings :
                          (p # n /\ loginPlayer(pre, login(p)).resp.status = 200) =>
                             loginPlayer(db, login(p)).resp.status = 401

\* A player whose password is " a" as registered changes it by sending "a "
\* and a differently spaced confirmation: the stored credential changes and
\* is that of "a".
C21_Witness ==
    /\ req.route = "password"
    /\ req.body.kind = "json"
    /\ resp.status = 200
    /\ ValidToken(req.tok)
    /\ req.tok.sub \in DOMAIN pre.players
    /\ req.body.new_password # TrimSpace(req.body.new_password)
    /\ req.body.confirmation # req.body.new_password
    /\ VerifyHash(pre.players[req.tok.sub].password_hash, <<" ", "a">>)
    /\ VerifyHash(db.players[req.tok.sub].password_hash, <<"a">>)


=============================================================================
